---------------------------- MODULE Spec2Model ----------------------------
(***************************************************************************)
(* A model of the asciidoctor-rs pipeline: the buffered, position-tracking *)
(* Lexer (src/src/lexer.rs), the recursive-descent Parser                  *)
(* (src/src/parser.rs) and the driving loop of tests/lib.rs.               *)
(*                                                                         *)
(* Bytes are their ASCII codes.  Strings are sequences of bytes.  Every    *)
(* fallible function of the code returns a record [l, ok, v]: the lexer    *)
(* as the call left it, whether the call returned Ok, and the value or the *)
(* error.  A Rust panic (an index out of range) is the error "Panic".      *)
(***************************************************************************)
EXTENDS Naturals, Integers, Sequences, FiniteSets, TLC

(***************************************************************************)
(* Bytes the lexer names.                                                  *)
(***************************************************************************)
Tab == 9
NL == 10
CR == 13
Sp == 32
Hash == 35
Apos == 39
Star == 42
Slash == 47
Colon == 58
Lt == 60
OpenSq == 91
CloseSq == 93
Caret == 94
Under == 95
Backq == 96
ByteA == 97
ByteB == 98
Tilde == 126

Byte == 0..255

\* b" *_`#[]^~:\n\r\t" of Lexer::word
WordStop == {Sp, Star, Under, Backq, Hash, OpenSq, CloseSq, Caret, Tilde, Colon, NL, CR, Tab}

BUFFER_SIZE == 4096

(***************************************************************************)
(* Bounds of the checked instances.                                        *)
(***************************************************************************)
MaxLen == 4
MaxPeeks == 2
MaxTextLen == 6
MaxSpanLen == 5
MaxMarkerLen == 3
MaxPieces == 5
MaxUnits == 4
MaxBracketLen == 5
MaxRenderItems == 3
MaxChunkedLen == 4
MaxBlankUnits == 5

VARIABLES
    input,      \* the bytes of the source the reader delivers
    chunk,      \* the most bytes one reader.read() call delivers
    lx,         \* the Lexer (the Parser's own, Parser.tokens, when a Parser is driven)
    last,       \* the last call made and what it returned
    prev,       \* the call before it
    toks,       \* the results of the Lexer.token() calls so far
    nodes,      \* the results of the Parser.node() calls so far; the nodes given to html::gen
    html        \* the bytes html::gen has written to the sink

vars == <<input, chunk, lx, last, prev, toks, nodes, html>>

(***************************************************************************)
(* Values.                                                                 *)
(***************************************************************************)
Ok(L, v) == [l |-> L, ok |-> TRUE, v |-> v]
Err(L, e) == [l |-> L, ok |-> FALSE, v |-> e]

Pos(line, column) == [line |-> line, column |-> column]

Tok(t) == [t |-> t, w |-> <<>>]
Word(bytes) == [t |-> "Word", w |-> bytes]

Eof == [e |-> "Eof", actual |-> <<>>, expected |-> <<>>, pos |-> Pos(0, 0)]
Panic == [e |-> "Panic", actual |-> <<>>, expected |-> <<>>, pos |-> Pos(0, 0)]
Msg(m) == [e |-> "Msg", actual |-> <<>>, expected |-> m, pos |-> Pos(0, 0)]
UnexpectedChar(actual, expected, pos) ==
    [e |-> "UnexpectedChar", actual |-> <<actual>>, expected |-> expected, pos |-> pos]
UnexpectedToken(actual, expected, pos) ==
    [e |-> "UnexpectedToken", actual |-> actual, expected |-> expected, pos |-> pos]

None == [some |-> FALSE, token |-> Tok("None"), previous_pos |-> Pos(0, 0)]
Some(token, previous_pos) == [some |-> TRUE, token |-> token, previous_pos |-> previous_pos]

Min(a, b) == IF a < b THEN a ELSE b

(***************************************************************************)
(* The Lexer.  Its buffer is [u8; BUFFER_SIZE], all zero at first; the     *)
(* model keeps the bytes written so far (buf) and reads the others as 0.   *)
(* reader is the byte source: its bytes (src), how many of them it has     *)
(* delivered (rd) and the most it delivers in one read (chunk).  n counts  *)
(* the bytes advance() has consumed (a history field).  outside records    *)
(* whether a read of the buffer has touched an index that is not below     *)
(* buffer_size, or has taken a slice whose start is after its end (a       *)
(* history field).                                                         *)
(***************************************************************************)
Reader(src, k) == [src |-> src, chunk |-> k]

Lexer_new(reader) ==
    [buf |-> <<>>,
     reader |-> reader,
     buffer_index |-> BUFFER_SIZE,
     buffer_size |-> 0,
     column |-> 1,
     line |-> 1,
     next_token |-> None,
     rd |-> 0,
     n |-> 0,
     outside |-> FALSE]

\* the lexer after a read of self.buffer[from..to]
Touch(L, from, to) ==
    [L EXCEPT !.outside = L.outside \/ from > to \/ (from < to /\ to > L.buffer_size)]

\* self.buffer[i]
BufAt(L, i) == IF i < Len(L.buf) THEN L.buf[i + 1] ELSE 0

\* reader.read(&mut self.buffer): up to chunk bytes, never more than the buffer holds
ReaderRead(L) ==
    LET src == L.reader.src
        k == Min(Min(L.reader.chunk, BUFFER_SIZE), Len(src) - L.rd)
    IN  [L EXCEPT !.buf = SubSeq(src, L.rd + 1, L.rd + k) \o SubSeq(L.buf, k + 1, Len(L.buf)),
                  !.buffer_size = k,
                  !.rd = L.rd + k]

\* read_if_needed once the reader has filled the buffer (M)
read_if_needed_filled(M) ==
    IF M.buffer_size = 0
    THEN Err(M, Eof)
    ELSE Ok([M EXCEPT !.buffer_index = 0], <<>>)

read_if_needed(L) ==
    IF L.buffer_index >= L.buffer_size
    THEN read_if_needed_filled(ReaderRead(L))
    ELSE Ok(L, <<>>)

\* current_char after its read_if_needed()? returned r
current_char_index(r) ==
    IF ~r.ok THEN r
    ELSE IF r.l.buffer_index >= BUFFER_SIZE
    THEN Err(Touch(r.l, r.l.buffer_index, r.l.buffer_index + 1), Panic)
    ELSE Ok(Touch(r.l, r.l.buffer_index, r.l.buffer_index + 1),
            BufAt(r.l, r.l.buffer_index))

current_char(L) == current_char_index(read_if_needed(L))

\* advance() that keeps counting the column over a newline
advance_unreset(L, actual) ==
    IF actual = NL
    THEN [L EXCEPT !.buffer_index = L.buffer_index + 1, !.n = L.n + 1,
                   !.line = L.line + 1, !.column = L.column + 1]
    ELSE [L EXCEPT !.buffer_index = L.buffer_index + 1, !.n = L.n + 1,
                   !.column = L.column + 1]

advance(L, actual) ==
    IF actual = NL
    THEN [L EXCEPT !.buffer_index = L.buffer_index + 1, !.n = L.n + 1,
                   !.line = L.line + 1, !.column = 1]
    ELSE [L EXCEPT !.buffer_index = L.buffer_index + 1, !.n = L.n + 1,
                   !.column = L.column + 1]

\* predicate is the set of the bytes the closure accepts
RECURSIVE advance_while(_, _)

\* the loop of advance_while after current_char()? returned c
advance_while_test(c, predicate) ==
    IF ~c.ok THEN c
    ELSE IF c.v \notin predicate THEN Ok(c.l, <<>>)
    ELSE advance_while(advance(c.l, c.v), predicate)

\* the loop of advance_while after read_if_needed()? returned r
advance_while_loop(r, predicate) ==
    IF ~r.ok THEN r ELSE advance_while_test(current_char(r.l), predicate)

advance_while(L, predicate) == advance_while_loop(read_if_needed(L), predicate)

advance_to_eol(L) == advance_while(L, Byte \ {NL})

\* pos() that forgets the lookahead slot
pos_current(L) == Pos(L.line, L.column)

pos(L) ==
    IF L.next_token.some
    THEN L.next_token.previous_pos
    ELSE Pos(L.line, L.column)

\* eat after current_char()? returned c
lexer_eat_test(c, expected) ==
    IF ~c.ok THEN c
    ELSE IF c.v = expected THEN Ok(advance(c.l, c.v), <<>>)
    ELSE Err(c.l, UnexpectedChar(c.v, <<expected>>, pos(c.l)))

\* eat after read_if_needed()? returned r
lexer_eat_read(r, expected) ==
    IF ~r.ok THEN r ELSE lexer_eat_test(current_char(r.l), expected)

\* the refusal of lexer_eat_consuming: M is the lexer after the advance
lexer_eat_consuming_moved(M, actual, expected) ==
    IF actual = expected THEN Ok(M, <<>>)
    ELSE Err(M, UnexpectedChar(actual, <<expected>>, pos(M)))

lexer_eat_consuming_test(c, expected) ==
    IF ~c.ok THEN c ELSE lexer_eat_consuming_moved(advance(c.l, c.v), c.v, expected)

lexer_eat_consuming_read(r, expected) ==
    IF ~r.ok THEN r ELSE lexer_eat_consuming_test(current_char(r.l), expected)

\* eat() that consumes the byte it refuses before it reports it
lexer_eat_consuming(L, expected) == lexer_eat_consuming_read(read_if_needed(L), expected)

lexer_eat(L, expected) == lexer_eat_read(read_if_needed(L), expected)

\* eat each byte of bytes in turn, stopping at the first failure
RECURSIVE EatAll(_, _)

EatAll_rest(r, bytes) == IF ~r.ok THEN r ELSE EatAll(r.l, Tail(bytes))

EatAll(L, bytes) ==
    IF bytes = <<>> THEN Ok(L, <<>>)
    ELSE EatAll_rest(lexer_eat(L, Head(bytes)), bytes)

\* Ok(tk) after the eats
EatThen_token(r, tk) == IF ~r.ok THEN r ELSE Ok(r.l, tk)

EatThen(L, bytes, tk) == EatThen_token(EatAll(L, bytes), tk)

close_square_bracket(L) == EatThen(L, <<CloseSq>>, Tok("CloseSquareBracket"))
newline(L) == EatThen(L, <<NL>>, Tok("NewLine"))
number_sign(L) == EatThen(L, <<Hash>>, Tok("NumberSign"))
open_square_bracket(L) == EatThen(L, <<OpenSq>>, Tok("OpenSquareBracket"))
space(L) == EatThen(L, <<Sp>>, Tok("Space"))
triple_apos(L) == EatThen(L, <<Apos, Apos, Apos>>, Tok("TripleApos"))
triple_lt(L) == EatThen(L, <<Lt, Lt, Lt>>, Tok("TripleLt"))
underscore(L) == EatThen(L, <<Under>>, Tok("Underscore"))

\* &self.buffer[self.buffer_index..self.buffer_index + 4]
BufSlice(L, from, to) == [i \in 1..(to - from) |-> BufAt(L, from + i - 1)]

CommentDelim == <<Slash, Slash, Slash, Slash>>

\* the while loop of Lexer::comment and the four eats after it
RECURSIVE comment_block(_)

\* the loop body after its advance_while(|c| c == b'\n')? returned s
comment_block_next(s) == IF ~s.ok THEN s ELSE comment_block(s.l)

\* the loop body after advance_to_eol()? returned r
comment_block_line(r) == IF ~r.ok THEN r ELSE comment_block_next(advance_while(r.l, {NL}))

\* the loop once the condition has read the four bytes (L)
comment_block_compared(L) ==
    IF L.buffer_index + Len(CommentDelim) > BUFFER_SIZE THEN Err(L, Panic)
    ELSE IF BufSlice(L, L.buffer_index, L.buffer_index + Len(CommentDelim)) # CommentDelim
    THEN comment_block_line(advance_to_eol(L))
    ELSE EatAll(L, CommentDelim)

comment_block(L) ==
    comment_block_compared(Touch(L, L.buffer_index, L.buffer_index + Len(CommentDelim)))

\* comment after the third and fourth eat(b'/')? returned s
comment_opened(s) == IF ~s.ok THEN s ELSE comment_block(s.l)

\* comment after current_char()? returned c
comment_third(c) ==
    IF ~c.ok THEN c
    ELSE IF c.v = Slash THEN comment_opened(EatAll(c.l, <<Slash, Slash>>))
    ELSE advance_to_eol(c.l)

\* comment after the first two eat(b'/')? returned r
comment_second(r) == IF ~r.ok THEN r ELSE comment_third(current_char(r.l))

comment(L) == comment_second(EatAll(L, <<Slash, Slash>>))

BugMsg == "bug in the parser, next character is not part of a word token"

\* word after advance_while returned r
word_run(r, start_index) ==
    IF ~r.ok THEN r
    ELSE IF r.l.buffer_index = start_index THEN Err(r.l, Msg(BugMsg))
    ELSE IF start_index > r.l.buffer_index \/ r.l.buffer_index > BUFFER_SIZE
    THEN Err(Touch(r.l, start_index, r.l.buffer_index), Panic)
    ELSE Ok(Touch(r.l, start_index, r.l.buffer_index),
            Word(BufSlice(r.l, start_index, r.l.buffer_index)))

word(L) == word_run(advance_while(L, Byte \ WordStop), L.buffer_index)

RECURSIVE token(_)

\* the arm b'/' after comment()? returned k
token_after_comment(k) == IF ~k.ok THEN k ELSE token(k.l)

\* the match of Lexer::token on what current_char()? returned
token_match(c) ==
    IF ~c.ok THEN c
    ELSE CASE c.v = Slash -> token_after_comment(comment(c.l))
           [] c.v = Lt -> triple_lt(c.l)
           [] c.v = Apos -> triple_apos(c.l)
           [] c.v = NL -> newline(c.l)
           [] c.v = CR -> token(advance(c.l, c.v))
           [] c.v = Hash -> number_sign(c.l)
           [] c.v = Sp -> space(c.l)
           [] c.v = OpenSq -> open_square_bracket(c.l)
           [] c.v = CloseSq -> close_square_bracket(c.l)
           [] c.v = Under -> underscore(c.l)
           [] OTHER -> word(c.l)

\* token after read_if_needed()? returned r
token_read(r) == IF ~r.ok THEN r ELSE token_match(current_char(r.l))

token(L) ==
    IF L.next_token.some
    THEN Ok([L EXCEPT !.next_token = None], L.next_token.token)
    ELSE token_read(read_if_needed(L))

\* peek after token() returned r
peek_keep(r, previous_pos) ==
    IF ~r.ok THEN r
    ELSE Ok([r.l EXCEPT !.next_token = Some(r.v, previous_pos)], r.v)

\* peek() that does not keep the token it read
peek_uncached(L) ==
    IF ~L.next_token.some
    THEN token(L)
    ELSE Ok(L, L.next_token.token)

peek(L) ==
    IF ~L.next_token.some
    THEN peek_keep(token(L), pos(L))
    ELSE Ok(L, L.next_token.token)

(***************************************************************************)
(* Token::to_string, and the other strings the parser puts in its errors.  *)
(***************************************************************************)
StrNewline == <<40, 110, 101, 119, 108, 105, 110, 101, 41>>         \* "(newline)"
StrSpace == <<40, 115, 112, 97, 99, 101, 41>>                       \* "(space)"
StrUnknown == <<40, 117, 110, 107, 110, 111, 119, 110, 32, 116, 111, 107, 101, 110, 41>>
StrIdent == <<105, 100, 101, 110, 116>>                             \* "ident"

to_string(tk) ==
    CASE tk.t = "Backquote" -> <<Backq>>
      [] tk.t = "Caret" -> <<Caret>>
      [] tk.t = "CloseSquareBracket" -> <<CloseSq>>
      [] tk.t = "NewLine" -> StrNewline
      [] tk.t = "NumberSign" -> <<Hash>>
      [] tk.t = "OpenSquareBracket" -> <<OpenSq>>
      [] tk.t = "Space" -> StrSpace
      [] tk.t = "Star" -> <<Star>>
      [] tk.t = "Tilde" -> <<Tilde>>
      [] tk.t = "TripleApos" -> <<Apos, Apos, Apos>>
      [] tk.t = "TripleLt" -> <<Lt, Lt, Lt>>
      [] tk.t = "Underscore" -> <<Under>>
      [] tk.t = "Word" -> tk.w

(***************************************************************************)
(* The AST of node.rs, as parser.rs builds it.                             *)
(***************************************************************************)
ItemWord(s) == [tag |-> "Word", w |-> s, text |-> <<>>, attrs |-> <<>>]
ItemSpace == [tag |-> "Space", w |-> <<>>, text |-> <<>>, attrs |-> <<>>]
ItemTag(tag, text, attributes) == [tag |-> tag, w |-> <<>>, text |-> text, attrs |-> attributes]
Role(s) == [a |-> "Role", s |-> s]
Id(s) == [a |-> "Id", s |-> s]
HorizontalRule == [node |-> "HorizontalRule", items |-> <<>>]
PageBreak == [node |-> "PageBreak", items |-> <<>>]
Paragraph(items) == [node |-> "Paragraph", items |-> items]

\* String::from_utf8 on the bytes of a Word: the model's inputs are ASCII, which is
\* valid UTF-8 and converts to the same bytes; a byte above 127 is refused here.
from_utf8(L, bytes) ==
    IF \A i \in 1..Len(bytes) : bytes[i] < 128
    THEN Ok(L, bytes)
    ELSE Err(L, Msg("invalid utf-8 sequence"))

(***************************************************************************)
(* The Parser.  Its only state is its Lexer.                               *)
(***************************************************************************)
\* unexpected_token with what self.tokens.peek() returned
unexpected_token_found(r, expected) ==
    IF ~r.ok /\ r.v.e = "Panic" THEN r
    ELSE Err(r.l, UnexpectedToken(IF r.ok THEN to_string(r.v) ELSE StrUnknown,
                                 expected, pos(r.l)))

unexpected_token(L, expected) == unexpected_token_found(peek(L), expected)

\* eat after self.tokens.token()? returned r
parser_eat_test(r, expected) ==
    IF ~r.ok THEN r
    ELSE IF r.v # expected THEN unexpected_token(r.l, to_string(expected))
    ELSE Ok(r.l, <<>>)

parser_eat(L, expected) == parser_eat_test(token(L), expected)

\* Ok(Id(..)) or Ok(Role(..)) of the word converted by String::from_utf8
attribute_id(u) == IF ~u.ok THEN u ELSE Ok(u.l, Id(u.v))

attribute_role(u) == IF ~u.ok THEN u ELSE Ok(u.l, Role(u.v))

\* the arm NumberSign after self.tokens.token()? returned s
attribute_ident(s) ==
    IF ~s.ok THEN s
    ELSE IF s.v.t = "Word" THEN attribute_id(from_utf8(s.l, s.v.w))
    ELSE unexpected_token(s.l, StrIdent)

\* the match of Parser::attribute on the token read
attribute_match(r) ==
    IF ~r.ok THEN r
    ELSE CASE r.v.t = "NumberSign" -> attribute_ident(token(r.l))
           [] r.v.t = "Word" -> attribute_role(from_utf8(r.l, r.v.w))
           [] OTHER -> unexpected_token(r.l, StrIdent)

attribute(L) == attribute_match(token(L))

\* attributes after eat(CloseSquareBracket)? returned e2: a holds the attribute
attributes_closed(e2, a) == IF ~e2.ok THEN e2 ELSE Ok(e2.l, <<a.v>>)

\* attributes after attribute()? returned a
attributes_one(a) ==
    IF ~a.ok THEN a
    ELSE attributes_closed(parser_eat(a.l, Tok("CloseSquareBracket")), a)

\* attributes after eat(OpenSquareBracket)? returned e1
attributes_opened(e1) == IF ~e1.ok THEN e1 ELSE attributes_one(attribute(e1.l))

\* attributes after self.tokens.peek()? returned r
attributes_peeked(r) ==
    IF ~r.ok THEN r
    ELSE IF r.v = Tok("OpenSquareBracket")
    THEN attributes_opened(parser_eat(r.l, Tok("OpenSquareBracket")))
    ELSE Ok(r.l, <<>>)

attributes(L) == attributes_peeked(peek(L))

\* Ok(v) after an eat
eat_then(r, v) == IF ~r.ok THEN r ELSE Ok(r.l, v)

horizontal_rule(L) == eat_then(parser_eat(L, Tok("TripleApos")), HorizontalRule)

page_break(L) == eat_then(parser_eat(L, Tok("TripleLt")), PageBreak)

parser_space(L, attrs) == eat_then(parser_eat(L, Tok("Space")), ItemSpace)

\* Ok(Item::Word(..)) of the word converted by String::from_utf8
parser_word_item(u) == IF ~u.ok THEN u ELSE Ok(u.l, ItemWord(u.v))

\* word after self.tokens.token() returned r
parser_word_match(r) ==
    IF ~r.ok /\ r.v.e = "Panic" THEN r
    ELSE IF r.ok /\ r.v.t = "Word" THEN parser_word_item(from_utf8(r.l, r.v.w))
    ELSE Err(r.l, Msg("Should have got word token"))

parser_word(L, attrs) == parser_word_match(token(L))

RECURSIVE text_while(_, _, _)
RECURSIVE text_item(_, _)

\* text_between! after the closing eat returned e2: t holds the text
text_between_closed(e2, t) == IF ~e2.ok THEN e2 ELSE Ok(e2.l, t.v)

\* text_between! after text_while returned t
text_between_text(t, tk) ==
    IF ~t.ok THEN t ELSE text_between_closed(parser_eat(t.l, tk), t)

\* text_between! after the opening eat returned e1
text_between_opened(e1, tk) ==
    IF ~e1.ok THEN e1 ELSE text_between_text(text_while(e1.l, tk, <<>>), tk)

\* the macro text_between!: the opening token, the text up to the closing one, the
\* closing token
text_between(L, tk) == text_between_opened(parser_eat(L, tk), tk)

\* a span that drops the attributes handed to it
span_item_unattributed(t, tag, attrs) == IF ~t.ok THEN t ELSE Ok(t.l, ItemTag(tag, t.v, <<>>))

\* Ok(Tag(tag, text, attributes)) of the text between the tokens
span_item(t, tag, attrs) == IF ~t.ok THEN t ELSE Ok(t.l, ItemTag(tag, t.v, attrs))

\* the functions the macro parse_text_between! makes, and Parser::mark
span(L, tk, tag, attrs) == span_item(text_between(L, tk), tag, attrs)

\* the match of Parser::text_item on the token peeked
text_item_match(p2, attrs) ==
    IF ~p2.ok THEN p2
    ELSE CASE p2.v.t = "Backquote" -> span(p2.l, p2.v, "InlineCode", attrs)
           [] p2.v.t = "Caret" -> span(p2.l, p2.v, "SuperScript", attrs)
           [] p2.v.t = "DoubleBackquote" -> span(p2.l, p2.v, "InlineCode", attrs)
           [] p2.v.t = "DoubleStar" -> span(p2.l, p2.v, "Bold", attrs)
           [] p2.v.t = "DoubleUnderscore" -> span(p2.l, p2.v, "Italic", attrs)
           [] p2.v.t = "NumberSign" -> span(p2.l, p2.v, "Mark", attrs)
           [] p2.v.t = "OpenSquareBracket" -> text_item(p2.l, attrs)
           [] p2.v.t = "Space" -> parser_space(p2.l, attrs)
           [] p2.v.t = "Star" -> span(p2.l, p2.v, "Bold", attrs)
           [] p2.v.t = "Tilde" -> span(p2.l, p2.v, "SubScript", attrs)
           [] p2.v.t = "Underscore" -> span(p2.l, p2.v, "Italic", attrs)
           [] p2.v.t = "Word" -> parser_word(p2.l, attrs)
           [] OTHER -> Err(p2.l, Msg(<<"Should have got text token, but got", p2.v>>))

\* text_item with the attributes in force (a.v)
text_item_attributes(a) == IF ~a.ok THEN a ELSE text_item_match(peek(a.l), a.v)

\* text_item that parses a second attribute list instead of refusing it
text_item_peeked_stacking(p1, attributes0) ==
    IF ~p1.ok THEN p1
    ELSE text_item_attributes(IF p1.v = Tok("OpenSquareBracket")
                              THEN attributes(p1.l)
                              ELSE Ok(p1.l, attributes0))

\* text_item after its first self.tokens.peek()? returned p1
text_item_peeked(p1, attributes0) ==
    IF ~p1.ok THEN p1
    ELSE IF p1.v = Tok("OpenSquareBracket") /\ attributes0 # <<>>
    THEN unexpected_token(p1.l, <<OpenSq>>)
    ELSE text_item_attributes(IF p1.v = Tok("OpenSquareBracket")
                              THEN attributes(p1.l)
                              ELSE Ok(p1.l, attributes0))

text_item(L, attributes0) == text_item_peeked(peek(L), attributes0)

\* text_while after text_item(vec![])? returned i
text_while_pushed(i, stop, items) ==
    IF ~i.ok THEN i ELSE text_while(i.l, stop, Append(items, i.v))

\* text_while after eat(NewLine)? returned e
text_while_eaten(e, stop, items) ==
    IF ~e.ok THEN e ELSE text_while(e.l, stop, items)

\* the loop of text_while on the token peeked
text_while_test(p, stop, items) ==
    IF ~p.ok THEN p
    ELSE IF p.v = stop THEN Ok(p.l, items)
    ELSE IF p.v = Tok("NewLine")
    THEN text_while_eaten(parser_eat(p.l, Tok("NewLine")), stop, items)
    ELSE text_while_pushed(text_item(p.l, <<>>), stop, items)

text_while_unexpected_test(p, stop, items) ==
    IF ~p.ok /\ p.v = Eof THEN unexpected_token(p.l, to_string(stop))
    ELSE text_while_test(p, stop, items)

\* text_while() that reports the end of the input as an unexpected token
text_while_unexpected(L, stop, items) == text_while_unexpected_test(peek(L), stop, items)

\* text_while(|token| token != &stop): items holds the items pushed so far
text_while(L, stop, items) == text_while_test(peek(L), stop, items)

\* the loop of Parser::paragraph: items holds the lines appended so far
RECURSIVE paragraph_loop(_, _)

\* the loop after text_while(|token| token != &NewLine)? returned t
paragraph_line(t, items) ==
    IF ~t.ok THEN t
    ELSE IF t.v = <<>> THEN Ok(t.l, Paragraph(items))
    ELSE paragraph_loop(t.l, items \o t.v)

paragraph_loop(L, items) == paragraph_line(text_while(L, Tok("NewLine"), <<>>), items)

paragraph(L) == paragraph_loop(L, <<>>)

RECURSIVE node(_)

\* the arm NewLine | Space after self.tokens.token()? returned r
node_skipped(r) == IF ~r.ok THEN r ELSE node(r.l)

\* the match of Parser::node on the token peeked
node_match(p) ==
    IF ~p.ok THEN p
    ELSE CASE p.v.t = "TripleApos" -> horizontal_rule(p.l)
           [] p.v.t = "TripleLt" -> page_break(p.l)
           [] p.v.t \in {"NewLine", "Space"} -> node_skipped(token(p.l))
           [] OTHER -> paragraph(p.l)

node(L) == node_match(peek(L))

(***************************************************************************)
(* Inputs.                                                                 *)
(***************************************************************************)
RECURSIVE Strs(_, _)
Strs(pieces, k) ==
    IF k = 0 THEN {<<>>}
    ELSE LET shorter == Strs(pieces, k - 1)
         IN  {<<>>} \cup {p \o s : p \in pieces, s \in shorter}

Alphabet == {ByteA, Sp, NL, Slash, Apos, Lt, Under}

\* A call of the caller: the operation, its result, and the lexer's consumed and
\* delivered byte counts, pos() and lookahead slot just before it
NoCall == [op |-> "none", ok |-> TRUE, v |-> Tok("None"), nBefore |-> 0, rdBefore |-> 0,
           posBefore |-> Pos(1, 1), cached |-> FALSE, peeks |-> 0]

InitOver(inputs, chunks) ==
    /\ input \in inputs
    /\ chunk \in chunks
    /\ lx = Lexer_new(Reader(input, chunk))
    /\ last = NoCall
    /\ prev = NoCall
    /\ toks = <<>>
    /\ nodes = <<>>
    /\ html = <<>>

\* peeks counts the peek() calls made in a row
Call(op, L, r) ==
    [op |-> op, ok |-> r.ok, v |-> r.v, nBefore |-> L.n, rdBefore |-> L.rd, posBefore |-> pos(L),
     cached |-> L.next_token.some,
     peeks |-> IF op = "peek" THEN last.peeks + 1 ELSE 0]

\* the caller stops at the first error, as the driving loop of tests/lib.rs does
Running == last.ok

\* the caller's record of a token() call that returned r
TokenReturned(r) ==
    /\ lx' = r.l
    /\ last' = Call("token", lx, r)
    /\ toks' = Append(toks, [ok |-> r.ok, v |-> r.v])

LexerToken ==
    /\ Running
    /\ TokenReturned(token(lx))
    /\ prev' = last
    /\ UNCHANGED <<input, chunk, nodes, html>>

\* the caller's record of a peek() call that returned r
PeekReturned(r) ==
    /\ lx' = r.l
    /\ last' = Call("peek", lx, r)

LexerPeek ==
    /\ Running
    /\ last.peeks < MaxPeeks
    /\ PeekReturned(peek(lx))
    /\ prev' = last
    /\ UNCHANGED <<input, chunk, toks, nodes, html>>

\* the caller's record of a node() call that returned r
NodeReturned(r) ==
    /\ lx' = r.l
    /\ last' = Call("node", lx, r)
    /\ nodes' = Append(nodes, [ok |-> r.ok, v |-> r.v, n |-> r.l.n])

ParserNode ==
    /\ Running
    /\ NodeReturned(node(lx))
    /\ prev' = last
    /\ UNCHANGED <<input, chunk, toks, html>>

\* a reader that delivers everything it has in one read: a byte slice, as in
\* tests/lib.rs
WholeReads == {BUFFER_SIZE}

\* a caller that drives a Lexer
NextLexer == LexerToken \/ LexerPeek

\* the driving loop of tests/lib.rs: a caller that drives a Parser
NextParser == ParserNode

Init == InitOver(Strs({<<b>> : b \in Alphabet}, MaxLen), WholeReads)

Next == NextLexer

Spec == Init /\ [][Next]_vars

\* lines of text: a letter, spaces, newlines and a span marker
TextAlphabet == {ByteA, Sp, NL, Under}

InitParser == InitOver(Strs({<<b>> : b \in TextAlphabet}, MaxTextLen), WholeReads)

SpecParser == InitParser /\ [][NextParser]_vars

\* text with spans: a letter, spaces, newlines and the two span markers the lexer knows
SpanAlphabet == {ByteA, Sp, NL, Under, Hash}

InitSpans == InitOver(Strs({<<b>> : b \in SpanAlphabet}, MaxSpanLen), WholeReads)

SpecSpans == InitSpans /\ [][NextParser]_vars

\* the marker bytes of the token model, the colon and what words are made of
MarkerAlphabet == {Hash, OpenSq, CloseSq, Under, Star, Backq, Caret, Tilde, Colon, Sp, ByteA}

InitMarkers == InitOver(Strs({<<b>> : b \in MarkerAlphabet}, MaxMarkerLen), WholeReads)

SpecMarkers == InitMarkers /\ [][NextLexer]_vars

\* comments: slashes alone, in twos and in fours, among lines of text
CommentPieces == {<<ByteA>>, <<NL>>, <<ByteA, NL>>, <<Slash>>, <<Slash, Slash>>, CommentDelim}

InitComments == InitOver(Strs(CommentPieces, MaxPieces), WholeReads)

SpecCommentLexer == InitComments /\ [][NextLexer]_vars

SpecCommentParser == InitComments /\ [][NextParser]_vars

(***************************************************************************)
(* What the claims speak of, said of the input alone.                      *)
(***************************************************************************)
\* the bytes of s that are b
RECURSIVE Count(_, _)
Count(s, b) ==
    IF s = <<>> THEN 0
    ELSE (IF Head(s) = b THEN 1 ELSE 0) + Count(Tail(s), b)

\* the bytes after the last newline of s
RECURSIVE SinceNewline(_)
SinceNewline(s) ==
    IF s = <<>> \/ s[Len(s)] = NL THEN 0
    ELSE 1 + SinceNewline(SubSeq(s, 1, Len(s) - 1))

\* line and column after the first k bytes of s
LineCol(s, k) ==
    Pos(1 + Count(SubSeq(s, 1, k), NL), 1 + SinceNewline(SubSeq(s, 1, k)))

\* the byte of s at offset k (0-based), or -1 past its end
ByteAt(s, k) == IF k < Len(s) THEN s[k + 1] ELSE -1

\* the results of calling token() until it fails, peek() never called
RECURSIVE TokenRun(_)
TokenRun(L) ==
    LET r == token(L)
    IN  IF ~r.ok THEN <<[ok |-> FALSE, v |-> r.v]>>
        ELSE <<[ok |-> TRUE, v |-> r.v]>> \o TokenRun(r.l)

TokensWithoutPeek == TokenRun(Lexer_new(Reader(input, chunk)))

\* a direct call of the lexer that found the lookahead slot empty, so that it
\* started at the byte at offset last.nBefore
FreshCall == last.op \in {"token", "peek"} /\ ~last.cached

(***************************************************************************)
(* C3.  One-token lookahead is transparent: peek() returns the token the   *)
(* next token() returns; a second peek() with no token() between returns   *)
(* the same token and neither consumes nor reads a byte; token() empties   *)
(* the slot peek() filled; and the tokens token() returns are those it     *)
(* returns when peek() is never called.                                    *)
(***************************************************************************)
C3_LookaheadTransparent ==
        /\ (last.op = "token" /\ prev.op = "peek") => (last.ok /\ last.v = prev.v)
        /\ (last.op = "peek" /\ prev.op = "peek") =>
               /\ last.ok /\ last.v = prev.v
               /\ lx.n = last.nBefore /\ lx.rd = last.rdBefore
        /\ (last.op = "peek" /\ last.ok) =>
               (lx.next_token.some /\ lx.next_token.token = last.v)
        /\ last.op = "token" => ~lx.next_token.some
        /\ Len(toks) <= Len(TokensWithoutPeek)
        /\ toks = SubSeq(TokensWithoutPeek, 1, Len(toks))

\* a token() that returned a peeked Word after earlier tokens
C3_Witness ==
    /\ last.op = "token" /\ prev.op = "peek" /\ last.cached
    /\ Len(toks) >= 2 /\ last.ok /\ last.v.t = "Word"

(***************************************************************************)
(* C4.  While a token is cached, pos() is the position the lexer had just  *)
(* before that token was read (the value pos() gave before the peek, which *)
(* is the line and column after the bytes consumed until then); after a    *)
(* token() it is the line and column after the bytes consumed so far.      *)
(***************************************************************************)
C4_PosBeforePeek ==
        /\ (last.op = "peek" /\ last.ok) => pos(lx) = last.posBefore
        /\ (last.op = "peek" /\ last.ok /\ ~last.cached) =>
               pos(lx) = LineCol(input, last.nBefore)
        /\ (last.op = "token" /\ last.ok) => pos(lx) = LineCol(input, lx.n)

\* a peek that consumed several bytes, a newline among them
C4_Witness ==
    /\ last.op = "peek" /\ last.ok /\ ~last.cached
    /\ lx.n > last.nBefore + 1
    /\ lx.line > pos(lx).line

(***************************************************************************)
(* C5.  Partial-prefix rejection: a token() that starts at ' (or <)        *)
(* returns TripleApos (TripleLt) and consumes three bytes when three of    *)
(* them stand in a row; when another byte stands where the second or third *)
(* is expected it fails with UnexpectedChar naming that byte as actual,    *)
(* the expected byte alone as expected, and the line and column of the     *)
(* offending byte; it never returns a token for a partial prefix (when the *)
(* input ends inside the prefix the failure is Eof).                       *)
(***************************************************************************)
\* how many of the bytes of s from offset k on are b, up to three
PrefixRun(s, k, b) ==
    IF ByteAt(s, k + 1) # b THEN 1
    ELSE IF ByteAt(s, k + 2) # b THEN 2 ELSE 3

C5_PartialPrefixRejected ==
    \A b \in {Apos, Lt} :
        (FreshCall /\ ByteAt(input, last.nBefore) = b) =>
            LET k == PrefixRun(input, last.nBefore, b)
                found == ByteAt(input, last.nBefore + k)
            IN  IF k = 3
                THEN /\ last.ok
                     /\ last.v = Tok(IF b = Apos THEN "TripleApos" ELSE "TripleLt")
                     /\ lx.n = last.nBefore + 3
                ELSE /\ ~last.ok
                     /\ IF found = -1
                        THEN last.v = Eof
                        ELSE last.v = UnexpectedChar(found, <<b>>,
                                                     LineCol(input, last.nBefore + k))

\* '' followed by a space, after a first line
C5_Witness ==
    /\ FreshCall /\ last.op = "token" /\ last.nBefore > 0
    /\ ByteAt(input, last.nBefore) = Apos /\ ByteAt(input, last.nBefore + 1) = Apos
    /\ ByteAt(input, last.nBefore + 2) = Sp
    /\ ~last.ok /\ last.v.e = "UnexpectedChar" /\ last.v.pos.line = 2

(***************************************************************************)
(* Plain text, said of the input alone.                                    *)
(***************************************************************************)
Letters == {ByteA, ByteB}

\* the items of plain text: a Word for each run of letters, a Space for each
\* space, nothing for a newline; w is the run of letters being read
RECURSIVE TextItems(_, _)
TextItems(s, w) ==
    LET flush == IF w = <<>> THEN <<>> ELSE <<ItemWord(w)>>
    IN  IF s = <<>> THEN flush
        ELSE IF Head(s) = Sp THEN flush \o <<ItemSpace>> \o TextItems(Tail(s), <<>>)
        ELSE IF Head(s) = NL THEN flush \o TextItems(Tail(s), <<>>)
        ELSE TextItems(Tail(s), Append(w, Head(s)))

\* a line of words and spaces that begins and ends with a word
IsLine(s) ==
    /\ s # <<>>
    /\ \A i \in 1..Len(s) : s[i] \in Letters \cup {Sp}
    /\ s[1] \in Letters /\ s[Len(s)] \in Letters

\* lines of words and spaces, each beginning and ending with a word, a single
\* newline between one and the next
AreLines(s) ==
    /\ s # <<>>
    /\ \A i \in 1..Len(s) : s[i] \in Letters \cup {Sp, NL}
    /\ s[1] \in Letters /\ s[Len(s)] \in Letters
    /\ \A i \in 2..(Len(s) - 1) : s[i] = NL => (s[i - 1] \in Letters /\ s[i + 1] \in Letters)

\* the offsets at which s has a blank line: a newline right after a newline
BlankAt(s) == {i \in 1..(Len(s) - 1) : s[i] = NL /\ s[i + 1] = NL}

SetMin(S) == CHOOSE x \in S : \A y \in S : x <= y

(***************************************************************************)
(* C1.  A paragraph accumulates consecutive non-blank lines: when the      *)
(* input begins with two or more non-empty lines of words and spaces, each *)
(* ended by a single newline, and a blank line follows, the first node()   *)
(* call returns the one Paragraph that holds the items of all these lines  *)
(* in order.                                                               *)
(***************************************************************************)
C1_ParagraphAccumulatesLines ==
    (/\ Len(nodes) >= 1
     /\ BlankAt(input) # {}
     /\ LET block == SubSeq(input, 1, SetMin(BlankAt(input)) - 1)
        IN  AreLines(block) /\ Count(block, NL) >= 1)
    => LET block == SubSeq(input, 1, SetMin(BlankAt(input)) - 1)
       IN  nodes[1].ok /\ nodes[1].v = Paragraph(TextItems(block, <<>>))

(***************************************************************************)
(* C2.  Paragraph boundary: for a line of words and spaces, a blank line   *)
(* and a second line that ends at the end of the input, the node() calls   *)
(* return the Paragraph of the first line, then the Paragraph of the       *)
(* second line, and only then Eof.                                         *)
(***************************************************************************)
C2_ParagraphBoundary ==
    \A i \in BlankAt(input) :
        LET first == SubSeq(input, 1, i - 1)
            second == SubSeq(input, i + 2, Len(input))
        IN  (/\ last.op = "node" /\ ~last.ok
             /\ IsLine(first) /\ Count(first, Sp) >= 1 /\ IsLine(second)) =>
                /\ Len(nodes) = 3
                /\ nodes[1].ok /\ nodes[1].v = Paragraph(TextItems(first, <<>>))
                /\ nodes[2].ok /\ nodes[2].v = Paragraph(TextItems(second, <<>>))
                /\ ~nodes[3].ok /\ nodes[3].v = Eof

(***************************************************************************)
(* C10.  Unterminated inline span: when the input is text in which a span  *)
(* marker stands an odd number of times, so that a span opened by it is    *)
(* never closed before the end of the input, no node() call returns a node *)
(* made from a part of the input that leaves a span open, and the call     *)
(* that meets the end of the input fails with Eof, not with                *)
(* UnexpectedToken or Msg: the driving loop ends normally.                 *)
(***************************************************************************)
OddMarker(s) == Count(s, Under) % 2 = 1 \/ Count(s, Hash) % 2 = 1

IsSpanText(s) == \A i \in 1..Len(s) : s[i] \in Letters \cup {Sp, NL, Under, Hash}

C10_UnterminatedSpanIsEof ==
    (last.op = "node" /\ IsSpanText(input) /\ OddMarker(input)) =>
        /\ \A i \in 1..Len(nodes) :
               nodes[i].ok => /\ nodes[i].v.node = "Paragraph"
                              /\ ~OddMarker(SubSeq(input, 1, nodes[i].n))
        /\ ~last.ok => last.v = Eof
        /\ lx.n = Len(input) => ~last.ok

\* a paragraph, then a span that a newline does not close and the input does not
\* close either
C10_Witness ==
    /\ last.op = "node" /\ ~last.ok /\ last.v = Eof
    /\ Len(nodes) = 2 /\ nodes[1].ok
    /\ Count(input, Under) = 1 /\ Count(input, Hash) = 0
    /\ input[Len(input)] = ByteA
    /\ \E i \in BlankAt(input) : input[i + 2] = Under

(***************************************************************************)
(* C6.  Marker classification: a token() that starts at a marker byte      *)
(* consumes it and returns its single-character token; for _, * and the    *)
(* backquote, when the same byte follows at once, it consumes both and     *)
(* returns the double-character token.  It never fails and never returns   *)
(* a Word.                                                                 *)
(***************************************************************************)
Markers == {Hash, OpenSq, CloseSq, Under, Star, Backq, Caret, Tilde}

Doubling == {Under, Star, Backq}

MarkerToken(b) ==
    CASE b = Hash -> "NumberSign"
      [] b = OpenSq -> "OpenSquareBracket"
      [] b = CloseSq -> "CloseSquareBracket"
      [] b = Under -> "Underscore"
      [] b = Star -> "Star"
      [] b = Backq -> "Backquote"
      [] b = Caret -> "Caret"
      [] b = Tilde -> "Tilde"

DoubleToken(b) ==
    CASE b = Under -> "DoubleUnderscore"
      [] b = Star -> "DoubleStar"
      [] b = Backq -> "DoubleBackquote"

C6_MarkerClassification ==
    \A b \in Markers :
        (FreshCall /\ ByteAt(input, last.nBefore) = b) =>
            IF b \in Doubling /\ ByteAt(input, last.nBefore + 1) = b
            THEN last.ok /\ last.v = Tok(DoubleToken(b)) /\ lx.n = last.nBefore + 2
            ELSE last.ok /\ last.v = Tok(MarkerToken(b)) /\ lx.n = last.nBefore + 1

(***************************************************************************)
(* C7.  Word tokens are maximal runs: a token() that starts at a byte that *)
(* begins neither a marker, a comment, a rule nor a page break returns the *)
(* Word of the longest run of bytes outside {space, *, _, backquote, #, [, *)
(* ], ^, ~, newline, \r, tab}; a colon is kept inside the Word.  (Stated   *)
(* here of the runs that a byte of that set ends.)                         *)
(***************************************************************************)
ClaimedWordStop == {Sp, Star, Under, Backq, Hash, OpenSq, CloseSq, Caret, Tilde, NL, CR, Tab}

\* the offset of the first byte of s at or after offset k that is in stop, or the
\* length of s
RECURSIVE RunEnd(_, _, _)
RunEnd(s, k, stop) ==
    IF k >= Len(s) \/ s[k + 1] \in stop THEN k ELSE RunEnd(s, k + 1, stop)

C7_WordMaximalRun ==
    LET end == RunEnd(input, last.nBefore, ClaimedWordStop)
    IN  (/\ FreshCall
         /\ last.nBefore < Len(input)
         /\ ByteAt(input, last.nBefore) \notin ClaimedWordStop \cup {Slash, Apos, Lt}
         /\ end < Len(input)) =>
            /\ last.ok
            /\ last.v = Word(SubSeq(input, last.nBefore + 1, end))
            /\ lx.n = end

(***************************************************************************)
(* C8.  Line comments are transparent: when a // comment stands on a line  *)
(* of its own between two lines of text, the nodes node() returns are      *)
(* those it returns for the input without that line.                       *)
(***************************************************************************)
\* the nodes of calling node() until it fails
RECURSIVE NodeRun(_)
NodeRun(L) ==
    LET r == node(L)
    IN  IF ~r.ok THEN <<>> ELSE <<r.v>> \o NodeRun(r.l)

NodesOf(src) == NodeRun(Lexer_new(Reader(src, chunk)))

\* the nodes returned so far
Returned == [i \in 1..Len(SelectSeq(nodes, LAMBDA x : x.ok)) |-> nodes[i].v]

\* s is a line of text with its newline, a comment line from offset i to its
\* newline at offset j, and then lines of text, the last with its newline
IsCommentBetweenLines(s, i, j) ==
    /\ 2 <= i /\ i + 1 < j /\ j + 1 < Len(s)
    /\ IsLine(SubSeq(s, 1, i - 1)) /\ s[i] = NL
    /\ s[i + 1] = Slash /\ s[i + 2] = Slash
    /\ ~(ByteAt(s, i + 2) = Slash /\ ByteAt(s, i + 3) = Slash)
    /\ \A k \in (i + 1)..(j - 1) : s[k] # NL
    /\ s[j] = NL
    /\ AreLines(SubSeq(s, j + 1, Len(s) - 1)) /\ s[Len(s)] = NL

WithoutLine(s, i, j) == SubSeq(s, 1, i) \o SubSeq(s, j + 1, Len(s))

\* what holds of the code: the same, of the comments whose third byte is not a slash
C8_TransparentNotThreeSlashes ==
    \A i, j \in 1..Len(input) :
        (/\ last.op = "node" /\ ~last.ok
         /\ IsCommentBetweenLines(input, i, j) /\ ByteAt(input, i + 2) # Slash) =>
            Returned = NodesOf(WithoutLine(input, i, j))

C8_LineCommentTransparent ==
    \A i, j \in 1..Len(input) :
        (last.op = "node" /\ ~last.ok /\ IsCommentBetweenLines(input, i, j)) =>
            Returned = NodesOf(WithoutLine(input, i, j))

(***************************************************************************)
(* C9.  Block comments: a token() that starts at //// discards the input   *)
(* up to and including the //// of the next line that begins with ////,    *)
(* and resumes after it; a //// that is not at the start of a line does    *)
(* not close the comment.  Two slashes that two more slashes do not follow *)
(* (three slashes too) start a line comment, which is discarded up to its  *)
(* newline, and never an error.                                            *)
(***************************************************************************)
StartsWith(s, k, bytes) == \A i \in 1..Len(bytes) : ByteAt(s, k + i - 1) = bytes[i]

\* the offsets after offset k at which a line of s begins with ////
ClosingAt(s, k) ==
    {q \in (k + 1)..Len(s) : s[q] = NL /\ StartsWith(s, q, CommentDelim)}

\* what token() returns on src, and the bytes it consumes
FirstToken(src) ==
    LET r == token(Lexer_new(Reader(src, chunk)))
    IN  [ok |-> r.ok, v |-> IF r.ok THEN r.v ELSE r.v.e, n |-> r.l.n]

\* a token() that started at offset k discarded the input up to offset q and
\* went on from there
ResumedAt(k, q) ==
    LET rest == FirstToken(SubSeq(input, q + 1, Len(input)))
    IN  /\ last.ok = rest.ok
        /\ (IF last.ok THEN last.v ELSE last.v.e) = rest.v
        /\ lx.n = q + rest.n

\* what holds of the code: line comments whose third byte is not a slash, and
\* block comments whose opening //// is not followed at once by ////
C9_LineCommentNotThreeSlashes ==
    LET k == last.nBefore
    IN  (/\ FreshCall
         /\ StartsWith(input, k, <<Slash, Slash>>)
         /\ ByteAt(input, k + 2) # Slash) =>
            IF \A q \in (k + 1)..Len(input) : input[q] # NL
            THEN ~last.ok /\ last.v = Eof
            ELSE ResumedAt(k, RunEnd(input, k, {NL}))

C9_BlockCommentNotClosedAtOnce ==
    LET k == last.nBefore
    IN  (/\ FreshCall
         /\ StartsWith(input, k, CommentDelim)
         /\ ~StartsWith(input, k + 4, CommentDelim)) =>
            IF ClosingAt(input, k + 4) = {}
            THEN ~last.ok /\ last.v = Eof
            ELSE ResumedAt(k, SetMin(ClosingAt(input, k + 4)) + 4)

C9_BlockComment ==
    LET k == last.nBefore
    IN  /\ (FreshCall /\ StartsWith(input, k, CommentDelim)) =>
               IF ClosingAt(input, k + 4) = {}
               THEN ~last.ok /\ last.v = Eof
               ELSE ResumedAt(k, SetMin(ClosingAt(input, k + 4)) + 4)
        /\ (/\ FreshCall
            /\ StartsWith(input, k, <<Slash, Slash>>)
            /\ ~StartsWith(input, k, CommentDelim)) =>
               IF \A q \in (k + 1)..Len(input) : input[q] # NL
               THEN ~last.ok /\ last.v = Eof
               ELSE ResumedAt(k, RunEnd(input, k, {NL}))

(***************************************************************************)
(* Text with attribute lists: words, spaces, newlines, an italic span, and *)
(* spans that the attribute list [b] precedes at once, one of them with a  *)
(* mark nested in it.                                                      *)
(***************************************************************************)
AttributeUnits ==
    {<<ByteA>>, <<Sp>>, <<NL>>,
     <<Under, ByteA, Under>>,
     <<OpenSq, ByteB, CloseSq, Under, ByteA, Under>>,
     <<OpenSq, ByteB, CloseSq, Hash, ByteA, Hash>>,
     <<OpenSq, ByteB, CloseSq, Under, Hash, ByteA, Hash, Under>>}

InitAttributes == InitOver(Strs(AttributeUnits, MaxUnits), WholeReads)

SpecAttributes == InitAttributes /\ [][NextParser]_vars

\* the items the claim gives to such text: attrs is the attribute list that stands
\* right before the first byte of s
RECURSIVE ScopedItems(_, _)
ScopedItems(s, attrs) ==
    IF s = <<>> THEN <<>>
    ELSE CASE Head(s) \in Letters ->
                  LET e == RunEnd(s, 0, (Byte \ Letters))
                  IN  <<ItemWord(SubSeq(s, 1, e))>> \o ScopedItems(SubSeq(s, e + 1, Len(s)), <<>>)
           [] Head(s) = Sp -> <<ItemSpace>> \o ScopedItems(Tail(s), <<>>)
           [] Head(s) = NL -> ScopedItems(Tail(s), <<>>)
           [] Head(s) = OpenSq ->
                  ScopedItems(SubSeq(s, 4, Len(s)), <<Role(<<s[2]>>)>>)
           [] Head(s) \in {Under, Hash} ->
                  LET c == RunEnd(s, 1, {Head(s)})
                  IN  <<ItemTag(IF Head(s) = Under THEN "Italic" ELSE "Mark",
                                ScopedItems(SubSeq(s, 2, c), <<>>), attrs)>>
                      \o ScopedItems(SubSeq(s, c + 2, Len(s)), <<>>)

\* the items of the paragraphs among the first k results of node(), in order
RECURSIVE ItemsOfNodes(_)
ItemsOfNodes(k) ==
    IF k = 0 THEN <<>>
    ELSE ItemsOfNodes(k - 1) \o (IF nodes[k].ok THEN nodes[k].v.items ELSE <<>>)

\* the items but the Space items (node() skips the spaces that begin a line)
NotSpaces(items) == SelectSeq(items, LAMBDA x : x.tag # "Space")

(***************************************************************************)
(* C11.  Attribute scoping: the span that an attribute list [role]         *)
(* precedes at once carries exactly [Role(role)]; the items nested in that *)
(* span and the items parsed after it, in the same paragraph or a later    *)
(* one, carry no attribute.  Said of every node() result: the items        *)
(* returned so far are the scoped items of the input consumed so far       *)
(* (Space items, which carry nothing, left aside).                         *)
(***************************************************************************)
C11_AttributeScoping ==
    /\ \A i \in 1..Len(nodes) :
           nodes[i].ok => /\ nodes[i].v.node = "Paragraph"
                          /\ NotSpaces(ItemsOfNodes(i)) =
                                 NotSpaces(ScopedItems(SubSeq(input, 1, nodes[i].n), <<>>))
    /\ (last.op = "node" /\ ~last.ok) => last.v = Eof

\* [b]_#a#_ and a word after it, in one paragraph
C11_Witness ==
    /\ Len(nodes) >= 1 /\ nodes[1].ok
    /\ Len(nodes[1].v.items) = 2
    /\ nodes[1].v.items[1] =
           ItemTag("Italic", <<ItemTag("Mark", <<ItemWord(<<ByteA>>)>>, <<>>)>>,
                   <<Role(<<ByteB>>)>>)
    /\ nodes[1].v.items[2] = ItemWord(<<ByteA>>)

(***************************************************************************)
(* Attribute lists, whole and broken: brackets, number signs, a letter,    *)
(* spaces and newlines.                                                    *)
(***************************************************************************)
BracketAlphabet == {OpenSq, CloseSq, Hash, ByteB, Sp, NL}

InitBrackets == InitOver(Strs({<<b>> : b \in BracketAlphabet}, MaxBracketLen), WholeReads)

SpecBrackets == InitBrackets /\ [][NextParser]_vars

\* the offset of the first [ of s, or the length of s
FirstBracket(s) == RunEnd(s, 0, {OpenSq})

\* words, spaces and newlines only
IsPlain(s) == \A i \in 1..Len(s) : s[i] \in Letters \cup {Sp, NL}

\* the offset at which the name of the attribute list opened at offset k begins
NameAt(s, k) == IF ByteAt(s, k + 1) = Hash THEN k + 2 ELSE k + 1

\* the offset after the complete attribute list ([role] or [#id]) that begins at
\* offset k of s, or -1 when none does
ListEnd(s, k) ==
    LET e == RunEnd(s, NameAt(s, k), (Byte \ Letters))
    IN  IF ByteAt(s, k) = OpenSq /\ e > NameAt(s, k) /\ ByteAt(s, e) = CloseSq
        THEN e + 1
        ELSE -1

\* no item of items, and no item nested in one, carries an attribute
RECURSIVE NoAttribute(_)
NoAttribute(items) ==
    \A i \in 1..Len(items) : items[i].attrs = <<>> /\ NoAttribute(items[i].text)

(***************************************************************************)
(* C12.  Attribute lists do not stack: when plain text is followed by a    *)
(* complete attribute list and a second [ follows the list at once, the    *)
(* node() call that reaches the list fails with UnexpectedToken whose      *)
(* actual is [, whose expected is [ and whose pos is the position just     *)
(* before the second [; the nodes returned before it come from the plain   *)
(* text alone and no item carries an attribute.                            *)
(***************************************************************************)
C12_ListsDoNotStack ==
    LET k == FirstBracket(input)
        q == ListEnd(input, k)
    IN  (/\ IsPlain(SubSeq(input, 1, k))
         /\ q # -1 /\ ByteAt(input, q) = OpenSq) =>
            /\ \A i \in 1..Len(nodes) :
                   nodes[i].ok => /\ nodes[i].n <= k
                                  /\ NoAttribute(nodes[i].v.items)
            /\ (last.op = "node" /\ ~last.ok) =>
                   last.v = UnexpectedToken(<<OpenSq>>, <<OpenSq>>, LineCol(input, q))
            /\ (last.op = "node" /\ last.ok) => lx.n <= k

\* a newline, a complete list and a second [: the error cites line 2
C12_Witness ==
    /\ last.op = "node" /\ ~last.ok
    /\ ListEnd(input, FirstBracket(input)) # -1
    /\ last.v.e = "UnexpectedToken" /\ last.v.actual = <<OpenSq>>
    /\ last.v.pos.line = 2 /\ last.v.pos.column > 1

\* the bytes that are a token each
SingleByteTokens == {Sp, NL, OpenSq, CloseSq, Hash}

\* the token the lexer makes of the single byte b
ByteToken(b) ==
    CASE b = Sp -> Tok("Space")
      [] b = NL -> Tok("NewLine")
      [] b = OpenSq -> Tok("OpenSquareBracket")
      [] b = CloseSq -> Tok("CloseSquareBracket")
      [] b = Hash -> Tok("NumberSign")

(***************************************************************************)
(* C13.  UnexpectedToken names the token that was found.  When plain text  *)
(* is followed by [ and a role, and the token after the role is not ] (a   *)
(* space, a newline, [ or #), Parser.eat fails with UnexpectedToken whose  *)
(* actual is the rendering of that token, whose expected is ] and whose    *)
(* pos is the position just before that token.  When the token after the [ *)
(* is neither a word nor # (a space, a newline, [ or ]), Parser.attribute  *)
(* fails with UnexpectedToken whose actual is the rendering of that token, *)
(* whose expected is ident and whose pos is the position just before it.   *)
(* Said of inputs in which one more token follows the token found.         *)
(***************************************************************************)
C13_UnexpectedTokenNamesFound ==
    LET k == FirstBracket(input)
        e == RunEnd(input, k + 1, (Byte \ Letters))
    IN  (/\ last.op = "node" /\ ~last.ok
         /\ k < Len(input) /\ IsPlain(SubSeq(input, 1, k))) =>
            /\ (/\ e > k + 1 /\ ByteAt(input, e) \in {Sp, NL, OpenSq, Hash}
                /\ ByteAt(input, e + 1) \in SingleByteTokens) =>
                   last.v = UnexpectedToken(to_string(ByteToken(input[e + 1])),
                                            <<CloseSq>>, LineCol(input, e))
            /\ (/\ ByteAt(input, k + 1) \in {Sp, NL, OpenSq, CloseSq}
                /\ ByteAt(input, k + 2) \in SingleByteTokens) =>
                   last.v = UnexpectedToken(to_string(ByteToken(input[k + 2])),
                                            StrIdent, LineCol(input, k + 1))

(***************************************************************************)
(* The HTML generator of gen/html.rs.  An Html value is a record: its      *)
(* variant (k), its attribute string, its children and its text.  The sink *)
(* never refuses a write.                                                  *)
(***************************************************************************)
NameDiv == <<100, 105, 118>>                    \* "div"
NameEm == <<101, 109>>                          \* "em"
NameMark == <<109, 97, 114, 107>>               \* "mark"
NameP == <<112>>                                \* "p"
NameSpan == <<115, 112, 97, 110>>               \* "span"
StrHr == <<60, 104, 114, 47, 62>>               \* "<hr/>"
StrOpen == <<60>>                               \* "<"
StrClose == <<62>>                              \* ">"
StrOpenEnd == <<60, 47>>                        \* "</"
StrStyle == <<115, 116, 121, 108, 101>>         \* stringify!(style)
StrClass == <<99, 108, 97, 115, 115>>           \* stringify!(class)
StrEqualsQuote == <<61, 34>>                    \* "=\""
StrQuote == <<34>>                              \* "\""
\* "page-break-after: always;"
StrPageBreakAfter ==
    <<112, 97, 103, 101, 45, 98, 114, 101, 97, 107, 45, 97, 102, 116, 101, 114, 58, 32,
      97, 108, 119, 97, 121, 115, 59>>
StrParagraph == <<112, 97, 114, 97, 103, 114, 97, 112, 104>>    \* "paragraph"
StrClassEqualsQuote == <<99, 108, 97, 115, 115, 61, 34>>        \* "class=\""

HtmlValue(k, attrs, children, text) ==
    [k |-> k, attributes |-> attrs, children |-> children, text |-> text]

Html_Div(attrs, children) == HtmlValue("Div", attrs, <<children>>, <<>>)
Html_Em(attrs, children) == HtmlValue("Em", attrs, <<children>>, <<>>)
Html_Empty == HtmlValue("Empty", <<>>, <<>>, <<>>)
Html_Hr == HtmlValue("Hr", <<>>, <<>>, <<>>)
Html_Mark(children) == HtmlValue("Mark", <<>>, <<children>>, <<>>)
Html_P(children) == HtmlValue("P", <<>>, <<children>>, <<>>)
SingleTextNode(text) == HtmlValue("SingleTextNode", <<>>, <<>>, text)
Html_Span(attrs, children) == HtmlValue("Span", attrs, <<children>>, <<>>)
TextNode(htmls) == HtmlValue("TextNode", <<>>, htmls, <<>>)

\* the macro attr! with one name = value pair
attr(name, value) == name \o StrEqualsQuote \o value \o StrQuote

div_a(attrs, children) == Html_Div(attrs, children)
hr == Html_Hr
italic_a(attrs, children) == Html_Em(attrs, children)
html_mark(children) == Html_Mark(children)
p(children) == Html_P(children)
span_a(attrs, children) == Html_Span(attrs, children)

RECURSIVE attributes_to_string(_)
attributes_to_string(attrs) ==
    IF attrs = <<>> THEN <<>>
    ELSE CASE Head(attrs).a = "Role" ->
                  StrClassEqualsQuote \o Head(attrs).s \o StrQuote
                  \o attributes_to_string(Tail(attrs))

RECURSIVE gen_text(_)

gen_horizontal_rule == hr

gen_italic(text, attrs) == italic_a(attributes_to_string(attrs), gen_text(text))

gen_mark(text, attrs) ==
    IF attrs = <<>>
    THEN html_mark(gen_text(text))
    ELSE span_a(attributes_to_string(attrs), gen_text(text))

gen_item(item) ==
    CASE item.tag = "Italic" -> gen_italic(item.text, item.attrs)
      [] item.tag = "Mark" -> gen_mark(item.text, item.attrs)
      [] item.tag = "Space" -> SingleTextNode(<<Sp>>)
      [] item.tag = "Word" -> SingleTextNode(item.w)

gen_page_break == div_a(attr(StrStyle, StrPageBreakAfter), Html_Empty)

gen_paragraph(text) == div_a(attr(StrClass, StrParagraph), p(gen_text(text)))

gen_text(text) == TextNode([i \in 1..Len(text) |-> gen_item(text[i])])

gen_node(nd) ==
    CASE nd.node = "HorizontalRule" -> gen_horizontal_rule
      [] nd.node = "PageBreak" -> gen_page_break
      [] nd.node = "Paragraph" -> gen_paragraph(nd.items)

write_text(text) == text

\* the bytes Html::write writes to the sink
RECURSIVE Html_write(_)

\* the for loop of the arm TextNode
RECURSIVE write_nodes(_)
write_nodes(htmls) ==
    IF htmls = <<>> THEN <<>>
    ELSE Html_write(Head(htmls)) \o write_nodes(Tail(htmls))

tag(name, children) ==
    StrOpen \o name \o StrClose \o Html_write(children) \o StrOpenEnd \o name \o StrClose

\* tag_a that leaves the attrs out
tag_a_unattributed(name, attrs, children) == tag(name, children)

tag_a(name, attrs, children) ==
    StrOpen \o name \o <<Sp>> \o attrs \o StrClose \o Html_write(children)
    \o StrOpenEnd \o name \o StrClose

Html_write(h) ==
    CASE h.k = "Div" -> tag_a(NameDiv, h.attributes, h.children[1])
      [] h.k = "Em" -> tag_a(NameEm, h.attributes, h.children[1])
      [] h.k = "Empty" -> <<>>
      [] h.k = "Hr" -> write_text(StrHr)
      [] h.k = "Mark" -> tag(NameMark, h.children[1])
      [] h.k = "P" -> tag(NameP, h.children[1])
      [] h.k = "SingleTextNode" -> write_text(h.text)
      [] h.k = "Span" -> tag_a(NameSpan, h.attributes, h.children[1])
      [] h.k = "TextNode" -> write_nodes(h.children)

gen(nd) == Html_write(gen_node(nd))

(***************************************************************************)
(* A caller that renders nodes: html::gen on one node after another, all   *)
(* into one sink.                                                          *)
(***************************************************************************)
RoleB == <<Role(<<ByteB>>)>>

\* the items rendered: a word, a space, marks and italics with and without a role,
\* one span nested in another
RenderItems ==
    {ItemWord(<<ByteA>>), ItemSpace,
     ItemTag("Mark", <<ItemWord(<<ByteA>>)>>, <<>>),
     ItemTag("Mark", <<ItemWord(<<ByteA>>), ItemSpace>>, RoleB),
     ItemTag("Italic", <<ItemWord(<<ByteA>>)>>, <<>>),
     ItemTag("Italic", <<ItemTag("Mark", <<ItemWord(<<ByteA>>)>>, <<>>)>>, RoleB)}

\* the nodes of at most k items
RenderNodes(k) ==
    {HorizontalRule, PageBreak}
    \cup {Paragraph(t) : t \in Strs({<<i>> : i \in RenderItems}, k)}

\* the size of a node: its items, and 1 for a node without any
Size(nd) == IF nd.items = <<>> THEN 1 ELSE Len(nd.items)

\* the size of the first k nodes rendered
RECURSIVE Rendered(_)
Rendered(k) == IF k = 0 THEN 0 ELSE Rendered(k - 1) + Size(nodes[k].v)

GenNode ==
    /\ Rendered(Len(nodes)) < MaxRenderItems
    /\ \E nd \in RenderNodes(MaxRenderItems - Rendered(Len(nodes))) :
           /\ html' = html \o gen(nd)
           /\ nodes' = Append(nodes, [ok |-> TRUE, v |-> nd, n |-> 0])
    /\ UNCHANGED <<input, chunk, lx, last, prev, toks>>

NextRender == GenNode

InitRender == InitOver({<<>>}, WholeReads)

SpecRender == InitRender /\ [][NextRender]_vars

(***************************************************************************)
(* The bytes the claim gives for a node.                                   *)
(***************************************************************************)
\* <hr/>
ClaimedHr == <<60, 104, 114, 47, 62>>
\* <div style="page-break-after: always;"></div>
ClaimedPageBreak ==
    <<60, 100, 105, 118, 32, 115, 116, 121, 108, 101, 61, 34, 112, 97, 103, 101, 45, 98,
      114, 101, 97, 107, 45, 97, 102, 116, 101, 114, 58, 32, 97, 108, 119, 97, 121, 115,
      59, 34, 62, 60, 47, 100, 105, 118, 62>>
\* <div class="paragraph"><p>
ClaimedParagraphOpen ==
    <<60, 100, 105, 118, 32, 99, 108, 97, 115, 115, 61, 34, 112, 97, 114, 97, 103, 114,
      97, 112, 104, 34, 62, 60, 112, 62>>
\* </p></div>
ClaimedParagraphClose == <<60, 47, 112, 62, 60, 47, 100, 105, 118, 62>>
\* <mark> and </mark>
ClaimedMarkOpen == <<60, 109, 97, 114, 107, 62>>
ClaimedMarkClose == <<60, 47, 109, 97, 114, 107, 62>>
\* <span, a space, and </span>
ClaimedSpanOpen == <<60, 115, 112, 97, 110, 32>>
ClaimedSpanClose == <<60, 47, 115, 112, 97, 110, 62>>
\* <em, a space, and </em>
ClaimedEmOpen == <<60, 101, 109, 32>>
ClaimedEmClose == <<60, 47, 101, 109, 62>>
\* > after the attributes
ClaimedTagEnd == <<62>>

\* Role(r) gives class="r"; the attributes follow one another with nothing between
RECURSIVE ClaimedAttributes(_)
ClaimedAttributes(attrs) ==
    IF attrs = <<>> THEN <<>>
    ELSE <<99, 108, 97, 115, 115, 61, 34>> \o Head(attrs).s \o <<34>>
         \o ClaimedAttributes(Tail(attrs))

RECURSIVE ClaimedItems(_)
ClaimedItems(items) ==
    IF items = <<>> THEN <<>>
    ELSE (CASE Head(items).tag = "Word" -> Head(items).w
            [] Head(items).tag = "Space" -> <<Sp>>
            [] Head(items).tag = "Mark" ->
                   IF Head(items).attrs = <<>>
                   THEN ClaimedMarkOpen \o ClaimedItems(Head(items).text) \o ClaimedMarkClose
                   ELSE ClaimedSpanOpen \o ClaimedAttributes(Head(items).attrs)
                        \o ClaimedTagEnd \o ClaimedItems(Head(items).text)
                        \o ClaimedSpanClose
            [] Head(items).tag = "Italic" ->
                   ClaimedEmOpen \o ClaimedAttributes(Head(items).attrs) \o ClaimedTagEnd
                   \o ClaimedItems(Head(items).text) \o ClaimedEmClose)
         \o ClaimedItems(Tail(items))

ClaimedNode(nd) ==
    CASE nd.node = "HorizontalRule" -> ClaimedHr
      [] nd.node = "PageBreak" -> ClaimedPageBreak
      [] nd.node = "Paragraph" ->
             ClaimedParagraphOpen \o ClaimedItems(nd.items) \o ClaimedParagraphClose

\* the bytes of the first k nodes rendered, in document order
RECURSIVE ClaimedDocument(_)
ClaimedDocument(k) ==
    IF k = 0 THEN <<>> ELSE ClaimedDocument(k - 1) \o ClaimedNode(nodes[k].v)

(***************************************************************************)
(* C14.  Default rendering: after html::gen has rendered nodes with the    *)
(* default Generator, the sink holds exactly the bytes the claim gives for *)
(* each node, in document order: <hr/> for HorizontalRule, the page-break  *)
(* div for PageBreak, and for a Paragraph the paragraph div and p around   *)
(* its items, a Word verbatim, a Space as one space, a Mark as <mark> or,  *)
(* with attributes, <span class="r">, an Italic as <em {attrs}>.           *)
(***************************************************************************)
C14_DefaultRendering == html = ClaimedDocument(Len(nodes))

\* a paragraph with a mark in a span with a role, an italic without attributes and
\* a word, then a horizontal rule
C14_Witness ==
    /\ Len(nodes) = 2
    /\ nodes[1].v = Paragraph(<<ItemTag("Mark", <<ItemWord(<<ByteA>>), ItemSpace>>, RoleB),
                                ItemTag("Italic", <<ItemWord(<<ByteA>>)>>, <<>>)>>)
    /\ nodes[2].v = HorizontalRule
    /\ html # <<>>

(***************************************************************************)
(* A caller that drives a Lexer over a reader that delivers short reads:   *)
(* at most 1, 2 or 3 bytes a read, or everything at once.                  *)
(***************************************************************************)
ChunkedAlphabet == {ByteA, Sp, NL, CR, Slash, Apos}

ShortReads == {1, 2, 3}

InitChunked ==
    InitOver(Strs({<<b>> : b \in ChunkedAlphabet}, MaxChunkedLen), ShortReads \cup WholeReads)

SpecChunked == InitChunked /\ [][NextLexer]_vars

(***************************************************************************)
(* C15.  Position tracking: after any sequence of token() and peek()       *)
(* calls, whatever the reads deliver, the bytes consumed are a prefix of   *)
(* the input, line is 1 + the newlines among them and column is 1 + the    *)
(* bytes after the last of these newlines (skipped \r and comment bytes    *)
(* count); line and column are at least 1.                                 *)
(***************************************************************************)
C15_PositionTracking ==
    /\ lx.n <= lx.rd
    /\ (lx.rd > 0 /\ lx.buffer_size > 0) => lx.n = lx.rd - lx.buffer_size + lx.buffer_index
    /\ Pos(lx.line, lx.column) = LineCol(input, lx.n)
    /\ lx.line >= 1
    /\ lx.column >= 1

\* a \r and a comment line were skipped and a newline consumed, over reads of one
\* byte each
C15_Witness ==
    /\ chunk = 1
    /\ input = <<CR, Slash, Slash, NL>>
    /\ last.op = "token"
    /\ last.ok
    /\ last.v = Tok("NewLine")
    /\ lx.n = 4
    /\ lx.line = 2
    /\ lx.column = 1

(***************************************************************************)
(* C16.  A blank line always terminates the paragraph: no Paragraph that   *)
(* node() returns holds words from both sides of a blank line (a newline   *)
(* right after a newline) of the input, also when the blank line lies      *)
(* between the two markers of a span; no Word item holds a newline and the *)
(* Space items are no more than the spaces read.  The bytes a node() call  *)
(* read are those between the lexer's consumed counts before and after it; *)
(* the one token a call that returns a Paragraph can leave in the          *)
(* lookahead slot is the NewLine at which the paragraph stopped.           *)
(***************************************************************************)
BlankUnits ==
    {<<ByteA>>, <<Sp>>, <<NL>>, <<Under, ByteA>>, <<ByteA, Under>>, <<Hash, ByteA>>,
     <<ByteA, Hash>>}

InitBlanks == InitOver(Strs(BlankUnits, MaxBlankUnits), WholeReads)

SpecBlanks == InitBlanks /\ [][NextParser]_vars

\* the items of a text with each span replaced by the items in it
RECURSIVE Flat(_)
Flat(items) ==
    IF items = <<>> THEN <<>>
    ELSE (IF Head(items).tag \in {"Word", "Space"} THEN <<Head(items)>>
          ELSE Flat(Head(items).text))
         \o Flat(Tail(items))

\* the offset before the bytes the i-th node() call read
ReadFrom(i) == IF i = 1 THEN 0 ELSE nodes[i - 1].n

C16_BlankLineTerminates ==
    \A i \in 1..Len(nodes) :
        (nodes[i].ok /\ nodes[i].v.node = "Paragraph") =>
            /\ ~\E b \in BlankAt(input) :
                   \E x, y \in (ReadFrom(i) + 1)..nodes[i].n :
                       /\ x < b /\ b + 1 < y
                       /\ input[x] \in Letters /\ input[y] \in Letters
            /\ \A k \in 1..Len(Flat(nodes[i].v.items)) :
                   \A j \in 1..Len(Flat(nodes[i].v.items)[k].w) :
                       Flat(nodes[i].v.items)[k].w[j] # NL
            /\ Len(SelectSeq(Flat(nodes[i].v.items), LAMBDA it : it.tag = "Space"))
                   <= Count(SubSeq(input, ReadFrom(i) + 1, nodes[i].n), Sp)

(***************************************************************************)
(* C17.  Chunking independence: the tokens token() returns do not depend   *)
(* on how the reader delivers the bytes: whatever the reads deliver, the   *)
(* i-th token() call returns a token exactly when it does over a reader    *)
(* that delivers the whole input in one read, and then the same token (a   *)
(* Word with all its bytes, a marker recognised the same).                 *)
(***************************************************************************)
\* the results of calling token() until it fails over one read of the whole input
WholeTokens == TokenRun(Lexer_new(Reader(input, BUFFER_SIZE)))

C17_ChunkingIndependence ==
    \A i \in 1..Len(toks) :
        /\ i <= Len(WholeTokens)
        /\ toks[i].ok = WholeTokens[i].ok
        /\ toks[i].ok => toks[i].v = WholeTokens[i].v

(***************************************************************************)
(* C18.  Buffer reads stay inside the valid bytes: no read of the buffer   *)
(* (current_char, the slice of word, the four-byte comparison of comment)  *)
(* touches an index that is not below buffer_size, and no slice has its    *)
(* start after its end.                                                    *)
(***************************************************************************)
C18_ReadsInsideValidBytes == ~lx.outside

=============================================================================
